---- MODULE Spec2Model ----
(***************************************************************************)
(* Model of egs/librispeech/s5/lattice_boosting:                           *)
(*   boosting_fst_lib.py          BoostingFstBuilder                       *)
(*   make_sigle_boosting_graph.py command line front end                   *)
(*                                                                         *)
(* An fst is a record [start, arcs, final]:                                *)
(*   start  the start state id, -1 (kNoStateId) when unset                 *)
(*   arcs   arcs[s+1] is the sequence of arcs leaving state s, in the      *)
(*          order add_arc appended them; num_states = Len(arcs)            *)
(*   final  a function whose domain is the set of final states, giving     *)
(*          their final weight; a state outside the domain has final       *)
(*          weight float("inf") (tropical Zero), that is, it is not final  *)
(* Weights are tropical-semiring weights (Times = +, Plus = min); the      *)
(* floats of the program are integers here, so rounding is not modelled.   *)
(***************************************************************************)
EXTENDS Integers, Sequences, FiniteSets, TLC

\* ------------------------------------------------------------------ bounds
\* at most MaxPhrases phrases in one call of lattice_boosting_graph
MaxPhrases == 2
\* at most MaxWords words in all the phrases of one call together
MaxWords == 4
\* at most MaxFileLen characters in the phrase file read by main()
MaxFileLen == 4

\* ------------------------------------------------------------------ inputs
\* the tokens a caller may put in a phrase: two words and the reserved
\* wildcard symbol ("b" is an ordinary word of one table and missing from
\* the other)
Words == {"a", "b", "#0"}

\* the characters of a phrase file; the words they spell ("a", "ab", "ba",
\* ...) are in a table or not
Chars == {"a", "b", " ", "\n"}

\* the defaults of --word-discount and --phrase-discount, and another value
WordDiscounts == {-3, 1}
PhraseDiscounts == {0, -2}

\* words.txt tables (symbol -> id); both hold "<eps>" and "#0", as a table
\* that lets the constructor succeed must, and give every symbol its own id
WordsTxtA == [w \in {"<eps>", "a", "b", "#0"} |->
                 CASE w = "<eps>" -> 0 [] w = "a" -> 1 [] w = "b" -> 2 [] OTHER -> 3]
WordsTxtB == [w \in {"<eps>", "#0", "ab", "a"} |->
                 CASE w = "<eps>" -> 0 [] w = "#0" -> 1 [] w = "ab" -> 2 [] OTHER -> 3]
Tables == {WordsTxtA, WordsTxtB}

\* ---------------------------------------------------------------- helpers
Min(S) == CHOOSE m \in S : \A n \in S : m <= n

Restrict(fn, D) == [k \in D |-> fn[k]]

\* ------------------------------------------------ the pywrapfst primitives
NoStateId == -1

VectorFst == [start |-> NoStateId, arcs |-> <<>>, final |-> <<>>]

Arc(il, ol, w, ns) == [ilabel |-> il, olabel |-> ol, weight |-> w, nextstate |-> ns]

NumStates(f) == Len(f.arcs)

States(f) == 0 .. (NumStates(f) - 1)

\* f.add_state(): the new state gets the id NumStates(f)
AddState(f) == [f EXCEPT !.arcs = Append(@, <<>>)]

SetStart(f, s) == [f EXCEPT !.start = s]

AddArc(f, s, arc) == [f EXCEPT !.arcs[s + 1] = Append(@, arc)]

\* f.set_final(s, w) for a finite w
SetFinal(f, s, w) ==
    [f EXCEPT !.final = [t \in (DOMAIN @) \cup {s} |-> IF t = s THEN w ELSE @[t]]]

\* f.set_final(s, float("inf"))
SetFinalInf(f, s) == [f EXCEPT !.final = Restrict(@, (DOMAIN @) \ {s})]

\* float(f.final(s)) != float("inf")
IsFinal(f, s) == s \in DOMAIN f.final

ArcsOf(f, s) == {f.arcs[s + 1][i] : i \in 1 .. Len(f.arcs[s + 1])}

\* ------------------------------------------------ BoostingFstBuilder.__init__
\* variants: one of the two reserved entries left in the map
InitWordToIntKeepingRho(words_txt) == Restrict(words_txt, (DOMAIN words_txt) \ {"<eps>"})

InitWordToIntKeepingEps(words_txt) == Restrict(words_txt, (DOMAIN words_txt) \ {"#0"})

\* the usable vocabulary: the table without "<eps>" and "#0"
InitWordToInt(words_txt) == Restrict(words_txt, (DOMAIN words_txt) \ {"<eps>", "#0"})

InitRhoInt(words_txt) == words_txt["#0"]

\* ----------------------------------------------------- __gen_initial_graph
\* variant: the default word discount on every arc of the prefix
PrefixArcDiscounted(w, s_next) == Arc(w, w, -3, s_next)

\* the arc of a word of w_rest
PrefixArc(w, s_next) == Arc(w, w, 0, s_next)

\* the loop over w_rest: one new state and one zero-weight arc per word;
\* the result is the graph and the state the walk ended in
RECURSIVE WalkPrefix(_, _, _)
WalkPrefix(f, s_prev, w_rest) ==
    IF w_rest = <<>> THEN [f |-> f, s_prev |-> s_prev]
    ELSE LET w == Head(w_rest)
             s_next == NumStates(f)
         IN WalkPrefix(AddArc(AddState(f), s_prev, PrefixArc(w, s_next)),
                       s_next, Tail(w_rest))

\* variant: the unknown words are left out and the rest of the phrase is kept
PhraseIntsSkippingOovs(boosted_phrase, word_to_int) ==
    LET known == SelectSeq(boosted_phrase, LAMBDA w : w \in DOMAIN word_to_int)
    IN [ok |-> TRUE, ints |-> [i \in 1 .. Len(known) |-> word_to_int[known[i]]]]

\* [word_to_int[w] for w in boosted_phrase]: ok is FALSE when the lookup
\* raises KeyError, and then there is no list
PhraseInts(boosted_phrase, word_to_int) ==
    IF \E i \in 1 .. Len(boosted_phrase) : boosted_phrase[i] \notin DOMAIN word_to_int
    THEN [ok |-> FALSE, ints |-> <<>>]
    ELSE [ok |-> TRUE,
          ints |-> [i \in 1 .. Len(boosted_phrase) |-> word_to_int[boosted_phrase[i]]]]

\* variant: only the first missing word is named
WarningFirstOov(boosted_phrase, word_to_int) ==
    LET oovs == SelectSeq(boosted_phrase, LAMBDA w : w \notin DOMAIN word_to_int)
    IN [oovs |-> SubSeq(oovs, 1, 1), phrase |-> boosted_phrase]

\* what logging.warning is given: the words missing from the map, and the phrase
Warning(boosted_phrase, word_to_int) ==
    [oovs |-> SelectSeq(boosted_phrase, LAMBDA w : w \notin DOMAIN word_to_int),
     phrase |-> boosted_phrase]

\* variant: the words of the prefix counted, the last word not
PhraseWeightOfPrefix(n, word_discount, phrase_discount) ==
    (n - 1) * word_discount + phrase_discount

\* the weight of the arc of the last word of a phrase of n words
PhraseWeight(n, word_discount, phrase_discount) ==
    n * word_discount + phrase_discount

\* one round of the loop over boosted_phrases; g is [f, log], log being the
\* sequence of warnings logged so far
AddPhrase(g, boosted_phrase, word_to_int, word_discount, phrase_discount) ==
    LET looked == PhraseInts(boosted_phrase, word_to_int)
        boosted_phrase_ints == looked.ints
    IN IF ~looked.ok
       THEN \* except KeyError: warn and continue
            [g EXCEPT !.log = Append(@, Warning(boosted_phrase, word_to_int))]
       ELSE IF Len(boosted_phrase_ints) = 0 THEN g
       ELSE LET n == Len(boosted_phrase_ints)
                w_rest == SubSeq(boosted_phrase_ints, 1, n - 1)
                w_last == boosted_phrase_ints[n]
                walked == WalkPrefix(g.f, g.f.start, w_rest)
                weight == PhraseWeight(n, word_discount, phrase_discount)
                s_next == NumStates(walked.f)
                f1 == AddArc(AddState(walked.f), walked.s_prev,
                             Arc(w_last, w_last, weight, s_next))
            IN [g EXCEPT !.f = SetFinal(f1, s_next, 0)]

RECURSIVE GenPhrases(_, _, _, _, _)
GenPhrases(g, boosted_phrases, word_to_int, word_discount, phrase_discount) ==
    IF boosted_phrases = <<>> THEN g
    ELSE GenPhrases(AddPhrase(g, Head(boosted_phrases), word_to_int,
                              word_discount, phrase_discount),
                    Tail(boosted_phrases), word_to_int, word_discount, phrase_discount)

GenInitialGraph(boosted_phrases, word_to_int, word_discount, phrase_discount) ==
    GenPhrases([f |-> SetStart(AddState(VectorFst), 0), log |-> <<>>],
               boosted_phrases, word_to_int, word_discount, phrase_discount)

\* -------------------------------------------------------- fst.determinize
\* Weighted determinization of an acceptor over the tropical semiring, as
\* OpenFst does it: a state of the result is a subset of (state, residual
\* weight) pairs, here a function from the states of the subset to their
\* residual; the arcs of a subset are made in increasing label order and a
\* new subset gets the next free id.
SubsetLabels(f, S) == {a.ilabel : a \in UNION {ArcsOf(f, q) : q \in DOMAIN S}}

\* (destination, Times(residual, arc weight)) of every arc labelled l that
\* leaves a state of the subset
SubsetMoves(f, S, l) ==
    UNION {{[q |-> a.nextstate, w |-> S[src] + a.weight] :
               a \in {b \in ArcsOf(f, src) : b.ilabel = l}} : src \in DOMAIN S}

\* the weight of the subset's arc labelled l: Plus over the moves
SubsetArcWeight(f, S, l) == Min({m.w : m \in SubsetMoves(f, S, l)})

\* the subset the arc labelled l leads to: per destination state, Plus over
\* the moves into it, divided by the arc weight
SubsetDest(f, S, l) ==
    LET moves == SubsetMoves(f, S, l)
        wl == SubsetArcWeight(f, S, l)
    IN [q \in {m.q : m \in moves} |-> Min({m.w : m \in {n \in moves : n.q = q}}) - wl]

\* Times(residual, final weight) of the final states of the subset
SubsetFinal(f, S) == {S[q] + f.final[q] : q \in (DOMAIN S) \cap (DOMAIN f.final)}


\* index of subset S among the subsets found so far (0 when it is new)
SubsetIndex(subsets, S) ==
    IF \E k \in 1 .. Len(subsets) : subsets[k] = S
    THEN CHOOSE k \in 1 .. Len(subsets) : subsets[k] = S
    ELSE 0

\* the arcs of subset number i (d.subsets[i]) for the labels still to do
RECURSIVE DetArcs(_, _, _, _)
DetArcs(f, d, i, labels) ==
    IF labels = {} THEN d
    ELSE LET l == Min(labels)
             S == d.subsets[i]
             T == SubsetDest(f, S, l)
             k == SubsetIndex(d.subsets, T)
             dest == IF k = 0 THEN Len(d.subsets) + 1 ELSE k
             subsets1 == IF k = 0 THEN Append(d.subsets, T) ELSE d.subsets
             arcs1 == IF k = 0 THEN Append(d.arcs, <<>>) ELSE d.arcs
             arc == Arc(l, l, SubsetArcWeight(f, S, l), dest - 1)
         IN DetArcs(f, [subsets |-> subsets1,
                        arcs |-> [arcs1 EXCEPT ![i] = Append(@, arc)]],
                    i, labels \ {l})

RECURSIVE DetExpand(_, _, _)
DetExpand(f, d, i) ==
    IF i > Len(d.subsets) THEN d
    ELSE DetExpand(f, DetArcs(f, d, i, SubsetLabels(f, d.subsets[i])), i + 1)

\* variant: the raw automaton handed on as it is
NotDeterminized(f) == f

Determinize(f) ==
    IF f.start = NoStateId THEN VectorFst
    ELSE LET S0 == [q \in {f.start} |-> 0]
             d == DetExpand(f, [subsets |-> <<S0>>, arcs |-> << <<>> >>], 1)
             fin == {s \in 1 .. Len(d.subsets) : SubsetFinal(f, d.subsets[s]) # {}}
         IN [start |-> 0,
             arcs |-> d.arcs,
             final |-> [s \in {t - 1 : t \in fin} |->
                           Min(SubsetFinal(f, d.subsets[s + 1]))]]

\* ------------------------------------------------- lattice_boosting_graph
\* variants: final weights left in place; epsilon arcs from final states only
PointToStartKeepingFinal(f, s, s_start) ==
    IF s # s_start THEN AddArc(f, s, Arc(0, 0, 0, s_start)) ELSE f

PointToStartFinalOnly(f, s, s_start) ==
    IF s # s_start /\ IsFinal(f, s)
    THEN SetFinalInf(AddArc(f, s, Arc(0, 0, 0, s_start)), s)
    ELSE f

\* the body of the loop `for s in range(f.num_states())` for one state
PointToStart(f, s, s_start) ==
    IF s # s_start
    THEN LET f1 == AddArc(f, s, Arc(0, 0, 0, s_start))
         IN IF IsFinal(f1, s) THEN SetFinalInf(f1, s) ELSE f1
    ELSE f

RECURSIVE PointAllToStart(_, _, _)
PointAllToStart(f, s, s_start) ==
    IF s >= NumStates(f) THEN f
    ELSE PointAllToStart(PointToStart(f, s, s_start), s + 1, s_start)

\* everything after fst.determinize
Rewrite(f, rho) ==
    LET s_start == f.start
        f1 == PointAllToStart(f, 0, s_start)
        f2 == SetFinal(f1, s_start, 0)
    IN AddArc(f2, s_start, Arc(rho, rho, 0, s_start))

\* variant: the lookup takes the words it finds out of the dict (dict.pop)
VocabularyAfterPop(boosted_phrases, word_to_int) ==
    Restrict(word_to_int,
             (DOMAIN word_to_int) \
                 UNION {{ph[i] : i \in 1 .. Len(ph)} :
                            ph \in {boosted_phrases[k] : k \in 1 .. Len(boosted_phrases)}})

\* self.word_to_int once the call has returned: the call hands the dict to
\* __gen_initial_graph, which only reads it (word_to_int[w], .keys())
VocabularyAfter(boosted_phrases, word_to_int) == word_to_int

\* the call as a whole: [raw, f, log] are the raw automaton, the returned
\* graph and the warnings logged
LatticeBoostingGraph(boosted_phrases, word_to_int, rho_int, word_discount, phrase_discount) ==
    LET g == GenInitialGraph(boosted_phrases, word_to_int, word_discount, phrase_discount)
    IN [raw |-> g.f, f |-> Rewrite(Determinize(g.f), rho_int), log |-> g.log]

\* ----------------------------------------- make_sigle_boosting_graph.main
IsSpace(c) == c \in {" ", "\n"}

\* f.readlines(): the lines of the file, each with its "\n"
RECURSIVE ReadLinesFrom(_, _, _)
ReadLinesFrom(text, cur, lines) ==
    IF text = <<>> THEN (IF cur = <<>> THEN lines ELSE Append(lines, cur))
    ELSE IF Head(text) = "\n"
         THEN ReadLinesFrom(Tail(text), <<>>, Append(lines, Append(cur, "\n")))
         ELSE ReadLinesFrom(Tail(text), Append(cur, Head(text)), lines)

ReadLines(text) == ReadLinesFrom(text, <<>>, <<>>)

\* line.strip().split(): the maximal runs of non-space characters
RECURSIVE SplitFrom(_, _, _)
SplitFrom(line, cur, toks) ==
    IF line = <<>> THEN (IF cur = "" THEN toks ELSE Append(toks, cur))
    ELSE IF IsSpace(Head(line))
         THEN SplitFrom(Tail(line), "", IF cur = "" THEN toks ELSE Append(toks, cur))
         ELSE SplitFrom(Tail(line), cur \o Head(line), toks)

StripSplit(line) == SplitFrom(line, "", <<>>)

Tokenize(text) ==
    LET lines == ReadLines(text)
    IN [i \in 1 .. Len(lines) |-> StripSplit(lines[i])]

\* ------------------------------------------------------------ input sets
SeqsUpTo(S, n) == UNION {[1 .. k -> S] : k \in 0 .. n}

\* the flat word sequence ws cut into Len(cuts) + 1 phrases at the positions
\* cuts (phrase i is the words after cut i-1 up to cut i)
CutAt(ws, cuts) ==
    LET m == Len(cuts) + 1
        lo(i) == IF i = 1 THEN 0 ELSE cuts[i - 1]
        hi(i) == IF i = m THEN Len(ws) ELSE cuts[i]
    IN [i \in 1 .. m |-> SubSeq(ws, lo(i) + 1, hi(i))]

CutsOf(n) ==
    {c \in UNION {[1 .. k -> 0 .. n] : k \in 0 .. (MaxPhrases - 1)} :
        \A i \in 1 .. (Len(c) - 1) : c[i] <= c[i + 1]}

\* every list of at most MaxPhrases phrases (empty phrases too) with at most
\* MaxWords words in all
PhraseLists ==
    {<<>>} \cup
    UNION {{CutAt(ws, c) : c \in CutsOf(Len(ws))} : ws \in SeqsUpTo(Words, MaxWords)}

Files == SeqsUpTo(Chars, MaxFileLen)

\* ------------------------------------------------------------------ state
VARIABLES
    words_txt,        \* the table the builder was constructed from
    word_to_int,      \* self.word_to_int
    rho_int,          \* self.rho_int
    pc,               \* "ready": no graph in hand; "built": a call has returned
    boosted_phrases,  \* the arguments of the call that returned
    word_discount,
    phrase_discount,
    raw,              \* what __gen_initial_graph returned in that call
    fst,              \* what lattice_boosting_graph returned
    log               \* the warnings that call logged

vars == <<words_txt, word_to_int, rho_int, pc, boosted_phrases, word_discount,
          phrase_discount, raw, fst, log>>

Init ==
    /\ words_txt \in Tables
    /\ word_to_int = InitWordToInt(words_txt)
    /\ rho_int = InitRhoInt(words_txt)
    /\ pc = "ready"
    /\ boosted_phrases = <<>>
    /\ word_discount = 0
    /\ phrase_discount = 0
    /\ raw = VectorFst
    /\ fst = VectorFst
    /\ log = <<>>

\* builder.lattice_boosting_graph(phrases, wd, pd)
Call(phrases, wd, pd) ==
    /\ LET r == LatticeBoostingGraph(phrases, word_to_int, rho_int, wd, pd)
       IN /\ raw' = r.raw
          /\ fst' = r.f
          /\ log' = r.log
    /\ boosted_phrases' = phrases
    /\ word_discount' = wd
    /\ phrase_discount' = pd
    /\ word_to_int' = VocabularyAfter(phrases, word_to_int)
    /\ pc' = "built"
    /\ UNCHANGED <<words_txt, rho_int>>

Build ==
    /\ pc = "ready"
    /\ \E ps \in PhraseLists, wd \in WordDiscounts, pd \in PhraseDiscounts :
          Call(ps, wd, pd)

\* main() of make_sigle_boosting_graph.py on a phrase file
Main ==
    /\ pc = "ready"
    /\ \E text \in Files, wd \in WordDiscounts, pd \in PhraseDiscounts :
          Call(Tokenize(text), wd, pd)

\* the caller writes the graph out (f.write) and lets go of it
Write ==
    /\ pc = "built"
    /\ pc' = "ready"
    /\ boosted_phrases' = <<>>
    /\ word_discount' = 0
    /\ phrase_discount' = 0
    /\ raw' = VectorFst
    /\ fst' = VectorFst
    /\ log' = <<>>
    /\ UNCHANGED <<words_txt, word_to_int, rho_int>>

Next == Build \/ Main \/ Write

Spec == Init /\ [][Next]_vars

\* ------------------------------------------------- reading a built graph
RECURSIVE Sum(_)
Sum(ws) == IF ws = <<>> THEN 0 ELSE Head(ws) + Sum(Tail(ws))

ArcIdx(f, s) == 1 .. Len(f.arcs[s + 1])

\* the paths from state s whose arcs carry the input labels `labels` in
\* order: idx the positions of the arcs taken, ws their weights, end the
\* state reached
RECURSIVE Runs(_, _, _)
Runs(f, s, labels) ==
    IF labels = <<>> THEN {[idx |-> <<>>, ws |-> <<>>, end |-> s]}
    ELSE UNION {
           {[idx |-> <<i>> \o r.idx, ws |-> <<f.arcs[s + 1][i].weight>> \o r.ws,
             end |-> r.end] :
               r \in Runs(f, f.arcs[s + 1][i].nextstate, Tail(labels))} :
           i \in {k \in ArcIdx(f, s) : f.arcs[s + 1][k].ilabel = Head(labels)}}

\* the epsilon arcs from s back to the start state
EpsBack(f, s) ==
    {i \in ArcIdx(f, s) : /\ f.arcs[s + 1][i].ilabel = 0
                          /\ f.arcs[s + 1][i].nextstate = f.start}

\* the total weights of the paths that read `labels` from the start state,
\* take an epsilon arc back to it and accept there
PathWeights(f, labels) ==
    UNION {{Sum(r.ws) + f.arcs[r.end + 1][i].weight + f.final[f.start] :
               i \in EpsBack(f, r.end)} : r \in Runs(f, f.start, labels)}

InVocabulary(phrase) == \A i \in 1 .. Len(phrase) : phrase[i] \in DOMAIN word_to_int

\* a phrase the build keeps: every word known, and not empty
Retained(phrase) == phrase # <<>> /\ InVocabulary(phrase)

Ids(phrase) == [i \in 1 .. Len(phrase) |-> word_to_int[phrase[i]]]

Phrases == {boosted_phrases[i] : i \in 1 .. Len(boosted_phrases)}

RetainedPhrases == {ph \in Phrases : Retained(ph)}

Built == pc = "built"

\* ------------------------------------------------------------- the claims

\* C1: the returned graph has exactly one final state, it is the start
\* state, its final weight is zero; every other state is non-final
C1_SingleFinalState ==
    Built => /\ fst.start \in States(fst)
             /\ DOMAIN fst.final = {fst.start}
             /\ fst.final[fst.start] = 0

\* a call that dropped a phrase and kept one, whose determinized graph had
\* final states other than the start state
C1_Witness ==
    /\ Built
    /\ log # <<>>
    /\ RetainedPhrases # {}
    /\ DOMAIN Determinize(raw).final # {}
    /\ C1_SingleFinalState

\* a call in which every phrase is dropped still returns the one-state graph
C1_WitnessAllDropped ==
    /\ Built
    /\ boosted_phrases # <<>>
    /\ RetainedPhrases = {}
    /\ NumStates(fst) = 1

\* C2: every state but the start state has exactly one outgoing arc with
\* input label 0; it is (0, 0, weight 0, start); the start state has none
C2_EpsilonFanIn ==
    Built => \A s \in States(fst) :
               LET eps == {i \in ArcIdx(fst, s) : fst.arcs[s + 1][i].ilabel = 0}
               IN IF s = fst.start THEN eps = {}
                  ELSE /\ Cardinality(eps) = 1
                       /\ \A i \in eps : fst.arcs[s + 1][i] = Arc(0, 0, 0, fst.start)

\* a graph with a state that was final and a state that was not
C2_Witness ==
    /\ Built
    /\ \E s \in States(fst) \ {fst.start} : IsFinal(Determinize(raw), s)
    /\ \E s \in States(fst) \ {fst.start} : ~IsFinal(Determinize(raw), s)
    /\ C2_EpsilonFanIn

\* C3: the start state has exactly one arc labelled (rho, rho); it is a
\* zero-weight self-loop, and no other arc of the graph carries rho
C3_WildcardSelfLoop ==
    Built =>
      LET rho == words_txt["#0"]
          carries(a) == a.ilabel = rho \/ a.olabel = rho
      IN \A s \in States(fst) :
           LET hits == {i \in ArcIdx(fst, s) : carries(fst.arcs[s + 1][i])}
           IN IF s = fst.start
              THEN /\ Cardinality(hits) = 1
                   /\ \A i \in hits : fst.arcs[s + 1][i] = Arc(rho, rho, 0, fst.start)
              ELSE hits = {}

\* a call with a phrase that contains "#0" and a phrase that is kept
C3_Witness ==
    /\ Built
    /\ \E ph \in Phrases : \E i \in 1 .. Len(ph) : ph[i] = "#0"
    /\ RetainedPhrases # {}
    /\ C3_WildcardSelfLoop

\* C4: for a single in-vocabulary phrase of L >= 1 words exactly one path
\* reads the phrase from the start state; its last arc weighs L*w + p, its
\* earlier arcs weigh zero, and with the epsilon arc back to start the total
\* is L*w + p
C4_SinglePhraseWeight ==
    (Built /\ Len(boosted_phrases) = 1 /\ Retained(boosted_phrases[1])) =>
      LET ph == boosted_phrases[1]
          L == Len(ph)
          total == L * word_discount + phrase_discount
          runs == Runs(fst, fst.start, Ids(ph))
      IN /\ Cardinality(runs) = 1
         /\ \A r \in runs :
              /\ r.ws = [i \in 1 .. L |-> IF i = L THEN total ELSE 0]
              /\ Cardinality(EpsBack(fst, r.end)) = 1
         /\ PathWeights(fst, Ids(ph)) = {total}

\* a single phrase of two words or more with a non-zero discount
C4_Witness ==
    /\ Built
    /\ Len(boosted_phrases) = 1
    /\ Retained(boosted_phrases[1])
    /\ Len(boosted_phrases[1]) >= 2
    /\ Len(boosted_phrases[1]) * word_discount + phrase_discount # 0
    /\ C4_SinglePhraseWeight

\* C5: for every retained phrase of L words, the path that reads it from
\* the start state and takes the epsilon arc back has total weight
\* L*word_discount + phrase_discount, whatever the discounts
C5_PhraseWeightExact ==
    Built => \A ph \in RetainedPhrases :
               PathWeights(fst, Ids(ph)) =
                   {Len(ph) * word_discount + phrase_discount}

\* C6: a path that reads a non-empty strict prefix of a retained phrase,
\* the prefix not being a retained phrase itself, and takes the epsilon
\* arc back to start has total weight zero
C6_PartialMatchZero ==
    Built => \A ph \in RetainedPhrases : \A k \in 1 .. (Len(ph) - 1) :
               LET prefix == SubSeq(ph, 1, k)
               IN prefix \notin RetainedPhrases =>
                    PathWeights(fst, Ids(prefix)) = {0}

\* a strict prefix that runs over arcs of non-zero weight: a shorter
\* retained phrase lies on the way
C6_Witness ==
    /\ Built
    /\ \E ph \in RetainedPhrases : \E k \in 1 .. (Len(ph) - 1) :
         LET prefix == SubSeq(ph, 1, k)
         IN /\ prefix \notin RetainedPhrases
            /\ \E r \in Runs(fst, fst.start, Ids(prefix)) :
                 \E i \in 1 .. Len(r.ws) : r.ws[i] # 0
    /\ C6_PartialMatchZero

\* C7: a phrase with an out-of-vocabulary word adds no state and no arc to
\* the raw automaton, and the raw and the finished graph are those of the
\* phrase list without such phrases
C7_OovPhraseDropped ==
    Built =>
      LET kept == SelectSeq(boosted_phrases, InVocabulary)
          words == Sum([i \in 1 .. Len(kept) |-> Len(kept[i])])
          again == LatticeBoostingGraph(kept, word_to_int, rho_int,
                                        word_discount, phrase_discount)
      IN /\ NumStates(raw) = 1 + words
         /\ Sum([s \in 1 .. NumStates(raw) |-> Len(raw.arcs[s])]) = words
         /\ raw = again.raw
         /\ fst = again.f
         /\ \A ph \in RetainedPhrases : Runs(fst, fst.start, Ids(ph)) # {}

\* a dropped phrase that has a known word, listed before a retained phrase
C7_Witness ==
    /\ Built
    /\ \E i, j \in 1 .. Len(boosted_phrases) :
         /\ i < j
         /\ ~InVocabulary(boosted_phrases[i])
         /\ \E k \in 1 .. Len(boosted_phrases[i]) :
              boosted_phrases[i][k] \in DOMAIN word_to_int
         /\ Retained(boosted_phrases[j])
    /\ C7_OovPhraseDropped

Discarded == SelectSeq(boosted_phrases, LAMBDA ph : ~Retained(ph))

\* C8: the number of warnings of a call equals the number of phrases the
\* call discarded, empty phrases included
C8_EveryDiscardWarned == Built => Len(log) = Len(Discarded)

\* C8 as amended: the warnings of a call are, in order, one per phrase with
\* an out-of-vocabulary word, naming all its missing words and the phrase;
\* an empty phrase is discarded without a warning
C8_OovDiscardWarned ==
    Built =>
      LET oov == SelectSeq(boosted_phrases, LAMBDA ph : ~InVocabulary(ph))
      IN log = [i \in 1 .. Len(oov) |->
                  [oovs |-> SelectSeq(oov[i], LAMBDA w : w \notin DOMAIN word_to_int),
                   phrase |-> oov[i]]]

\* a call with an empty phrase and a phrase with two missing words
C8_Witness ==
    /\ Built
    /\ \E ph \in Phrases : ph = <<>>
    /\ \E i \in 1 .. Len(log) : Len(log[i].oovs) >= 2
    /\ Len(log) < Len(Discarded)
    /\ C8_OovDiscardWarned

\* C9: at every point the usable vocabulary is the loaded table without
\* "<eps>" and "#0", the wildcard id is the table's id of "#0", and what a
\* call returned is what the call's own arguments give with that vocabulary
C9_VocabularyFixed ==
    /\ DOMAIN word_to_int = (DOMAIN words_txt) \ {"<eps>", "#0"}
    /\ \A w \in DOMAIN word_to_int : word_to_int[w] = words_txt[w]
    /\ rho_int = words_txt["#0"]
    /\ Built =>
         fst = LatticeBoostingGraph(boosted_phrases,
                   [w \in (DOMAIN words_txt) \ {"<eps>", "#0"} |-> words_txt[w]],
                   words_txt["#0"], word_discount, phrase_discount).f

\* a call that dropped a phrase for "#0" and kept another
C9_Witness ==
    /\ Built
    /\ \E i \in 1 .. Len(log) : \E k \in 1 .. Len(log[i].oovs) : log[i].oovs[k] = "#0"
    /\ RetainedPhrases # {}
    /\ C9_VocabularyFixed

\* C10: no state has two outgoing arcs with the same input label, every
\* arc has equal input and output label, and each retained phrase is read
\* by exactly one path from the start state
C10_Deterministic ==
    Built =>
      /\ \A s \in States(fst) : \A i, j \in ArcIdx(fst, s) :
           i # j => fst.arcs[s + 1][i].ilabel # fst.arcs[s + 1][j].ilabel
      /\ \A s \in States(fst) : \A i \in ArcIdx(fst, s) :
           fst.arcs[s + 1][i].ilabel = fst.arcs[s + 1][i].olabel
      /\ \A ph \in RetainedPhrases : Cardinality(Runs(fst, fst.start, Ids(ph))) = 1

\* two phrases of two words that share the first word and differ in the
\* second: the start state has one word arc, and the state it leads to has
\* the two second words
C10_Witness ==
    /\ Built
    /\ Len(boosted_phrases) = 2
    /\ Retained(boosted_phrases[1]) /\ Retained(boosted_phrases[2])
    /\ Len(boosted_phrases[1]) = 2 /\ Len(boosted_phrases[2]) = 2
    /\ boosted_phrases[1][1] = boosted_phrases[2][1]
    /\ boosted_phrases[1][2] # boosted_phrases[2][2]
    /\ Len(fst.arcs[fst.start + 1]) = 2
    /\ LET a == fst.arcs[fst.start + 1][1]
       IN /\ a.ilabel = word_to_int[boosted_phrases[1][1]]
          /\ {fst.arcs[a.nextstate + 1][i].ilabel : i \in ArcIdx(fst, a.nextstate)}
               = {word_to_int[boosted_phrases[1][2]],
                  word_to_int[boosted_phrases[2][2]], 0}
    /\ C10_Deterministic

====
